---------------------------- MODULE Spec2Model ----------------------------
(***************************************************************************)
(* A model of birtrashclient.client.BirTrashClient: the session provider   *)
(* (_get_session, close), the authenticator (authenticate), the retrying   *)
(* request executor (_request_with_retry) and the domain operations built  *)
(* on it (search_addresses, search_address, get_calendar).                 *)
(*                                                                         *)
(* The client runs on an asyncio event loop: a coroutine runs without      *)
(* interruption until it suspends in a network call or in asyncio.sleep.   *)
(* Every action below is one such uninterrupted stretch of one operation,  *)
(* from the point it is resumed to the point it suspends or ends.  The     *)
(* server's answers and the timing of the callers are the environment;     *)
(* they are drawn from small sets.  Responses carry a JSON body, as the    *)
(* service's wire contract says.                                           *)
(***************************************************************************)
EXTENDS Integers, Sequences, FiniteSets, TLC

(***************************************************************************)
(* Bounds of the model.                                                    *)
(***************************************************************************)
MaxRetries == 3
MaxBackoff == 2
MaxResults == 2
MaxClosed == 2
MaxConcRetries == 1
MaxFairRetries == 2

VARIABLES
    retries,          \* self.retries
    backoff_factor,   \* self.backoff_factor
    token,            \* self.token
    session,          \* self._session
    close_session,    \* self._close_session
    closed,           \* the sessions whose .closed is true
    nCreated,         \* how many sessions _get_session has created
    closedByClient,   \* history: the sessions close() has closed
    call              \* the operations in progress, one per caller

vars == <<retries, backoff_factor, token, session, close_session, closed,
          nCreated, closedByClient, call>>

(***************************************************************************)
(* Values.                                                                 *)
(***************************************************************************)
None == "None"
Tokens == {"t1", "t2"}

NoSession == [owner |-> "none", n |-> 0]
ExternalSession == [owner |-> "external", n |-> 0]
ClientSession(n) == [owner |-> "client", n |-> n]

NoException == [type |-> None, status |-> 0]
Exc(type, status) == [type |-> type, status |-> status]

TRANSIENT_STATUS_CODES == {500, 502, 503, 504}

CaughtByExecutor_everything ==
    {"ClientConnectionError", "ClientResponseError", "TimeoutError",
     "BirTrashAuthError"}

\* What the retry loop catches: aiohttp.ClientError (with its subclasses
\* ClientConnectionError and ClientResponseError) and asyncio.TimeoutError.
CaughtByExecutor == {"ClientConnectionError", "ClientResponseError", "TimeoutError"}

\* The statuses the server answers with, and the ways a network call fails.
Statuses == {200, 401, 404} \cup TRANSIENT_STATUS_CODES
NetworkFailures == {"ClientConnectionError", "TimeoutError"}

\* A JSON object is a set of <<key, value>> pairs; a body is a list of them.
Dicts == { {<<"adresse", "A">>},
           {<<"id", "X1">>, <<"adresse", "A">>} }
SeqsUpTo(S, n) == UNION { [1..k -> S] : k \in 0..n }
Bodies == SeqsUpTo(Dicts, MaxResults)

\* dict.get(key): the value, or None.
Get(d, key) == IF \E p \in d : p[1] = key
               THEN (CHOOSE p \in d : p[1] = key)[2]
               ELSE None

\* d[key] = value
SetItem(d, key, value) == {p \in d : p[1] # key} \cup {<<key, value>>}

\* The outcome of one network call of the executor.
Outcomes ==
    [exc : NetworkFailures, status : {0}, body : {<<>>}]
    \cup [exc : {None}, status : Statuses \ {200}, body : {<<>>}]
    \cup [exc : {None}, status : {200}, body : Bodies]

\* The outcome of the login call: a network failure, or a response with a
\* success or an error status, with or without a Token response header.  The
\* server issues a fresh token at each login, never the one the client holds.
LoginOutcomes ==
    [exc : NetworkFailures, status : {0}, token : {None}]
    \cup [exc : {None}, status : {200}, token : (Tokens \ {token}) \cup {None}]
    \cup [exc : {None}, status : {401, 503}, token : {None}]
    \cup [exc : {None}, status : {503}, token : Tokens \ {token}]

\* The outcomes as the executor sees them: it hands the body on unread.
ExecOutcomes == {out \in Outcomes : out.body = <<>>}

\* The reduced inputs of the concurrent specification.
ConcOutcomes == [exc : {None}, status : {200, 401, 503}, body : {<<>>}]
ConcLoginOutcomes ==
    [exc : {None}, status : {503}, token : {None}]
    \cup [exc : {None}, status : {200}, token : Tokens \ {token}]

\* The operations called and, for a direct call of _request_with_retry, the
\* headers argument passed: none, an empty mapping, or one holding the token.
\* (search_address runs search_addresses and then picks the id, so the
\* sequential specification calls search_addresses through it)
Ops == {"search_address", "_request_with_retry", "authenticate"}
HeaderArgs == {"absent", "empty"}
ExecHeaderArgs == {"absent", "empty", "other", "token"}
ConcOps == [{1} -> {"search_addresses", "get_calendar"}]
           \cup [{2} -> {"search_addresses", "authenticate"}]

NoResult == [kind |-> "none", json |-> <<>>, id |-> None, exc |-> None,
             cause |-> NoException]

IdleCall == [pc |-> "idle", op |-> None, has_headers |-> FALSE, headers |-> {},
             session |-> NoSession, attempt |-> 0,
             last_exception |-> NoException, result |-> NoResult,
             responses |-> <<>>, logins |-> <<>>, sleeps |-> <<>>,
             log |-> <<>>, sent |-> <<>>, returned |-> <<>>]

(***************************************************************************)
(* _get_session: the held session, or a new one marked as owned when none  *)
(* is held or the held one is closed.                                      *)
(***************************************************************************)
NeedsNewSession_always == TRUE

\* if self._session is None or self._session.closed
NeedsNewSession == session = NoSession \/ session \in closed

_get_session_unmarked ==
    IF NeedsNewSession
    THEN [session |-> ClientSession(nCreated + 1), close_session |-> close_session,
          nCreated |-> nCreated + 1]
    ELSE [session |-> session, close_session |-> close_session,
          nCreated |-> nCreated]

_get_session ==
    IF NeedsNewSession
    THEN [session |-> ClientSession(nCreated + 1), close_session |-> TRUE,
          nCreated |-> nCreated + 1]
    ELSE [session |-> session, close_session |-> close_session,
          nCreated |-> nCreated]

Pow2(n) == 2 ^ n

Delay_linear(attempt) == backoff_factor * (attempt + 1)

\* delay = self.backoff_factor * (2 ** attempt)
Delay(attempt) == backoff_factor * Pow2(attempt)

\* response.raise_for_status() raises ClientResponseError
RaisesForStatus(status) == status >= 400

Raise(c, exc, cause) ==
    [c EXCEPT !.pc = "done",
              !.result = [NoResult EXCEPT !.kind = "raise", !.exc = exc,
                                          !.cause = cause]]

search_address_last(result) ==
    IF Len(result) = 0
    THEN [NoResult EXCEPT !.kind = "raise", !.exc = "IndexError"]
    ELSE [NoResult EXCEPT !.kind = "return",
                          !.id = Get(result[Len(result)], "id")]

\* search_address: result[0].get("id")
search_address(result) ==
    IF Len(result) = 0
    THEN [NoResult EXCEPT !.kind = "raise", !.exc = "IndexError"]
    ELSE [NoResult EXCEPT !.kind = "return", !.id = Get(result[1], "id")]

LoopEnds_offByOne(k) == k > retries + 1

\* for attempt in range(self.retries + 1): index k is past the last one
LoopEnds(k) == k > retries

(***************************************************************************)
(* The head of the loop `for attempt in range(self.retries + 1)` at index  *)
(* k: past the last index the loop ends and the call raises                *)
(* BirTrashConnectionError from last_exception; otherwise the request is   *)
(* issued on the call's session (aiohttp raises RuntimeError on a closed   *)
(* session) with the headers of kwargs as they are now.  tok, held and cl  *)
(* are the stored token, the held session and the closed sessions at that  *)
(* moment.                                                                 *)
(***************************************************************************)
Attempt(c, k, tok, held, cl) ==
    IF LoopEnds(k)
    THEN Raise(c, "BirTrashConnectionError", c.last_exception)
    ELSE IF c.session \in cl
    THEN Raise([c EXCEPT !.attempt = k], "RuntimeError", NoException)
    ELSE [c EXCEPT !.pc = "request",
                   !.attempt = k,
                   !.log = Append(@, "request"),
                   !.sent = Append(@, [kind |-> "request",
                                       has_headers |-> c.has_headers,
                                       headers |-> c.headers,
                                       token |-> tok,
                                       session |-> c.session,
                                       held |-> held])]

Return_missing(c, body) == Attempt(c, c.attempt + 1, token, session, closed)

\* return await response.json(), and what the operation makes of it
Return(c, body) ==
    [c EXCEPT !.pc = "done",
              !.returned = <<body>>,
              !.result = IF c.op = "search_address"
                         THEN search_address(body)
                         ELSE [NoResult EXCEPT !.kind = "return", !.json = body]]

Sleep_unwoken(c, d) ==
    [c EXCEPT !.pc = "suspended", !.sleeps = Append(@, d),
              !.log = Append(@, "sleep")]

\* asyncio.sleep(delay) inside the loop
Sleep(c, d) ==
    [c EXCEPT !.pc = "sleep", !.sleeps = Append(@, d), !.log = Append(@, "sleep")]

Except_sleepsAlways(c, err) ==
    Sleep([c EXCEPT !.last_exception = err], Delay(c.attempt))

\* except (aiohttp.ClientError, asyncio.TimeoutError) as err
Except(c, err) ==
    LET c1 == [c EXCEPT !.last_exception = err]
    IN  IF c.attempt < retries
        THEN Sleep(c1, Delay(c.attempt))
        ELSE Attempt(c1, c.attempt + 1, token, session, closed)

\* An exception raised inside the try block of the loop: caught by its except
\* clause, or leaving the call.  authenticate() called on its own has no such
\* clause around it.
Raised(c, type, status, cause) ==
    IF c.op # "authenticate" /\ type \in CaughtByExecutor
    THEN Except(c, Exc(type, status))
    ELSE Raise(c, type, cause)

Reauthenticated_resend(c, tok, held, cl) ==
    LET c1 == IF c.has_headers /\ c.headers # {}
              THEN [c EXCEPT !.headers = SetItem(@, "Token", tok)]
              ELSE c
    IN  Attempt(c1, c.attempt, tok, held, cl)

Reauthenticated_presenceOnly(c, tok, held, cl) ==
    LET c1 == IF c.has_headers
              THEN [c EXCEPT !.headers = SetItem(@, "Token", tok)]
              ELSE c
    IN  Attempt(c1, c.attempt + 1, tok, held, cl)

Reauthenticated_forgets(c, tok, held, cl) ==
    LET c1 == IF c.has_headers /\ c.headers # {}
              THEN [c EXCEPT !.headers = SetItem(@, "Token", tok)]
              ELSE c
    IN  Attempt([c1 EXCEPT !.last_exception = NoException], c.attempt + 1,
                tok, held, cl)

Reauthenticated_backoff(c, tok, held, cl) ==
    LET c1 == IF c.has_headers /\ c.headers # {}
              THEN [c EXCEPT !.headers = SetItem(@, "Token", tok)]
              ELSE c
    IN  Sleep(c1, Delay(c.attempt))

\* After authenticate() has returned inside the loop:
\*     if "headers" in kwargs and kwargs["headers"]:
\*         kwargs["headers"]["Token"] = self.token
\*     continue
Reauthenticated(c, tok, held, cl) ==
    LET c1 == IF c.has_headers /\ c.headers # {}
              THEN [c EXCEPT !.headers = SetItem(@, "Token", tok)]
              ELSE c
    IN  Attempt(c1, c.attempt + 1, tok, held, cl)

Transient_budgeted(c, status) ==
    LET c1 == [c EXCEPT !.last_exception = Exc("BirTrashConnectionError", status)]
    IN  IF c.attempt < retries
        THEN Sleep(c1, Delay(c.attempt))
        ELSE Attempt(c1, c.attempt + 1, token, session, closed)

\* if response.status in TRANSIENT_STATUS_CODES
Transient(c, status) ==
    Sleep([c EXCEPT !.last_exception = Exc("BirTrashConnectionError", status)],
          Delay(c.attempt))

\* the login request of authenticate(), issued on the session _get_session gives
Login(c) ==
    [c EXCEPT !.pc = "login",
              !.log = Append(@, "authenticate"),
              !.sent = Append(@, [kind |-> "login",
                                  has_headers |-> FALSE,
                                  headers |-> {},
                                  token |-> token,
                                  session |-> _get_session.session,
                                  held |-> _get_session.session])]

LoginError_unchecked(out) ==
    IF out.exc # None THEN Exc(out.exc, 0)
    ELSE IF out.token = None THEN Exc("KeyError", 0)
    ELSE NoException

\* What goes wrong in authenticate() with the outcome of its login call: the
\* network failure, the ClientResponseError of raise_for_status(), the
\* KeyError of response.headers["Token"]; or nothing.
LoginError(out) ==
    IF out.exc # None THEN Exc(out.exc, 0)
    ELSE IF RaisesForStatus(out.status) THEN Exc("ClientResponseError", out.status)
    ELSE IF out.token = None THEN Exc("KeyError", 0)
    ELSE NoException

\* the kwargs the operations pass to _request_with_retry
Kwargs(op, h) ==
    IF op = "_request_with_retry"
    THEN [has_headers |-> h # "absent",
          headers |-> IF h = "token" THEN {<<"Token", token>>}
                      ELSE IF h = "other" THEN {<<"Accept", "json">>}
                      ELSE {}]
    ELSE [has_headers |-> TRUE, headers |-> {<<"Token", token>>}]

(***************************************************************************)
(* Actions.                                                                *)
(***************************************************************************)
ClientUnchanged == UNCHANGED <<retries, backoff_factor>>

\* An operation is called: it runs to its first network call.
Start(i, op, h) ==
    /\ call[i].pc = "idle"
    /\ session' = _get_session.session
    /\ close_session' = _get_session.close_session
    /\ nCreated' = _get_session.nCreated
    /\ LET c0 == [IdleCall EXCEPT !.op = op]
       IN  IF op = "authenticate"
           THEN call' = [call EXCEPT ![i] = Login(c0)]
           ELSE LET c1 == [c0 EXCEPT !.has_headers = Kwargs(op, h).has_headers,
                                     !.headers = Kwargs(op, h).headers,
                                     !.session = _get_session.session]
                IN  call' = [call EXCEPT
                               ![i] = Attempt(c1, 0, token, _get_session.session,
                                              closed)]
    /\ UNCHANGED <<token, closed, closedByClient>>
    /\ ClientUnchanged

\* The network call of an attempt ends: with a response or with an exception.
Respond(i, out) ==
    /\ call[i].pc = "request"
    /\ LET c == [call[i] EXCEPT !.responses = Append(@, out)]
       IN  IF out.exc # None
           THEN /\ call' = [call EXCEPT
                              ![i] = Raised(c, out.exc, 0, NoException)]
                /\ UNCHANGED <<session, close_session, nCreated>>
           ELSE IF out.status = 401
           THEN /\ call' = [call EXCEPT ![i] = Login(c)]
                /\ session' = _get_session.session
                /\ close_session' = _get_session.close_session
                /\ nCreated' = _get_session.nCreated
           ELSE IF out.status \in TRANSIENT_STATUS_CODES
           THEN /\ call' = [call EXCEPT ![i] = Transient(c, out.status)]
                /\ UNCHANGED <<session, close_session, nCreated>>
           ELSE IF RaisesForStatus(out.status)
           THEN /\ call' = [call EXCEPT
                              ![i] = Raised(c, "ClientResponseError", out.status,
                                            NoException)]
                /\ UNCHANGED <<session, close_session, nCreated>>
           ELSE /\ call' = [call EXCEPT ![i] = Return(c, out.body)]
                /\ UNCHANGED <<session, close_session, nCreated>>
    /\ UNCHANGED <<token, closed, closedByClient>>
    /\ ClientUnchanged

\* The login call of authenticate() ends.
LoginRespond(i, out) ==
    /\ call[i].pc = "login"
    /\ LET c == [call[i] EXCEPT !.logins = Append(@, out)]
       IN  IF LoginError(out) # NoException
           THEN /\ call' = [call EXCEPT
                              ![i] = Raised(c, "BirTrashAuthError", 0,
                                            LoginError(out))]
                /\ token' = token
           ELSE /\ token' = out.token
                /\ IF c.op = "authenticate"
                   THEN call' = [call EXCEPT
                                   ![i] = [c EXCEPT !.pc = "done",
                                                    !.result.kind = "return"]]
                   ELSE call' = [call EXCEPT
                                   ![i] = Reauthenticated(c, out.token, session,
                                                          closed)]
    /\ UNCHANGED <<session, close_session, closed, nCreated, closedByClient>>
    /\ ClientUnchanged

\* asyncio.sleep(delay) ends: the loop goes on to its next index.
Wake(i) ==
    /\ call[i].pc = "sleep"
    /\ call' = [call EXCEPT
                  ![i] = Attempt(call[i], call[i].attempt + 1, token, session,
                                 closed)]
    /\ UNCHANGED <<token, session, close_session, closed, nCreated,
                   closedByClient>>
    /\ ClientUnchanged

Close_unowned ==
    /\ IF session # NoSession
       THEN /\ session \in closed \/ Cardinality(closed) < MaxClosed
            /\ closed' = closed \cup {session}
            /\ closedByClient' = closedByClient \cup {session}
       ELSE UNCHANGED <<closed, closedByClient>>
    /\ UNCHANGED <<token, session, close_session, nCreated, call>>
    /\ ClientUnchanged

\* close(): closes the held session if the client owns it.
Close ==
    /\ IF session # NoSession /\ close_session
       THEN /\ session \in closed \/ Cardinality(closed) < MaxClosed
            /\ closed' = closed \cup {session}
            /\ closedByClient' = closedByClient \cup {session}
       ELSE UNCHANGED <<closed, closedByClient>>
    /\ UNCHANGED <<token, session, close_session, nCreated, call>>
    /\ ClientUnchanged

\* The owner of an externally supplied session closes it.
OwnerClose ==
    /\ session = ExternalSession
    /\ ExternalSession \notin closed
    /\ Cardinality(closed) < MaxClosed
    /\ closed' = closed \cup {ExternalSession}
    /\ UNCHANGED <<token, session, close_session, nCreated, closedByClient,
                   call>>
    /\ ClientUnchanged

(***************************************************************************)
(* Specifications.  Spec: a client is constructed, one operation is called *)
(* on it and runs to its end against every behaviour of the server.        *)
(* SpecConc: on a client that has or has not authenticated yet, two        *)
(* callers each call an operation; the two operations interleave with each *)
(* other and with the closing of the session, by the client's close() and  *)
(* by the owner of an external session.                                    *)
(***************************************************************************)
InitClient ==
    /\ retries \in 0..MaxRetries
    /\ backoff_factor \in {1, MaxBackoff}
    /\ token = None
    /\ session \in {NoSession, ExternalSession}
    /\ close_session = FALSE
    /\ closed = {}
    /\ nCreated = 0
    /\ closedByClient = {}

Init ==
    /\ InitClient
    /\ call = [i \in {1} |-> IdleCall]

\* The client after construction and a successful authenticate(): it holds
\* a token and an open session, the external one or one it created.
InitAuthenticated ==
    /\ retries \in 0..MaxRetries
    /\ backoff_factor \in {1, MaxBackoff}
    /\ token = "t1"
    /\ \/ session = ExternalSession /\ close_session = FALSE /\ nCreated = 0
       \/ session = ClientSession(1) /\ close_session = TRUE /\ nCreated = 1
    /\ closed = {}
    /\ closedByClient = {}

InitConc ==
    /\ InitClient \/ InitAuthenticated
    /\ retries <= MaxConcRetries
    /\ backoff_factor = 1
    /\ call = [i \in {1, 2} |-> IdleCall]

Next ==
    \/ \E i \in DOMAIN call, op \in Ops, h \in HeaderArgs : Start(i, op, h)
    \/ \E i \in DOMAIN call, out \in Outcomes : Respond(i, out)
    \/ \E i \in DOMAIN call, out \in LoginOutcomes : LoginRespond(i, out)
    \/ \E i \in DOMAIN call : Wake(i)

NextConc ==
    \/ \E f \in ConcOps : \E i \in DOMAIN f : Start(i, f[i], "token")
    \/ \E i \in DOMAIN call, out \in ConcOutcomes : Respond(i, out)
    \/ \E i \in DOMAIN call, out \in ConcLoginOutcomes : LoginRespond(i, out)
    \/ \E i \in DOMAIN call : Wake(i)
    \/ Close
    \/ OwnerClose

\* The executor called directly, with each kind of headers argument.
NextExec ==
    \/ \E i \in DOMAIN call, h \in ExecHeaderArgs :
           Start(i, "_request_with_retry", h)
    \/ \E i \in DOMAIN call, out \in ExecOutcomes : Respond(i, out)
    \/ \E i \in DOMAIN call, out \in LoginOutcomes : LoginRespond(i, out)
    \/ \E i \in DOMAIN call : Wake(i)

Spec == Init /\ [][Next]_vars

SpecExec == Init /\ [][NextExec]_vars

SpecConc == InitConc /\ [][NextConc]_vars

\* Every network call ends, with a response or, at the latest when the request
\* timeout expires, with an exception; every asyncio.sleep ends.
Fairness ==
    \A i \in {1} :
        /\ WF_vars(\E out \in Outcomes : Respond(i, out))
        /\ WF_vars(\E out \in LoginOutcomes : LoginRespond(i, out))
        /\ WF_vars(Wake(i))

InitFair == Init /\ retries <= MaxFairRetries

SpecFair == InitFair /\ [][Next]_vars /\ Fairness


(***************************************************************************)
(* What the claims speak of, read off a call's history.                    *)
(***************************************************************************)
Count(seq, x) == Cardinality({p \in DOMAIN seq : seq[p] = x})
Requests(c) == Count(c.log, "request")
IsStatus(o, S) == o.exc = None /\ o.status \in S
IsTransient(o) == IsStatus(o, {500, 502, 503, 504})
IsOk(o) == IsStatus(o, {200})
Is401(o) == IsStatus(o, {401})
\* the place in the log of the k-th request
RequestPos(log, k) ==
    CHOOSE p \in DOMAIN log :
        log[p] = "request" /\ Cardinality({q \in 1..p : log[q] = "request"}) = k
LoginFailed(o) == o.exc # None \/ o.status >= 400 \/ o.token = None
Executor(c) == c.op \notin {None, "authenticate"}

(***************************************************************************)
(* C1.  If the first response to _request_with_retry has status 200, the   *)
(* call has ended by returning that response's parsed body after exactly   *)
(* one network call, with no sleep, no authenticate() call and no retry,   *)
(* whatever retries and backoff_factor are.                                *)
(***************************************************************************)
C1_FirstResponseOkReturns ==
    \A i \in DOMAIN call :
        LET c == call[i]
        IN  (Len(c.responses) >= 1 /\ IsOk(c.responses[1]))
            => /\ c.pc = "done"
               /\ c.returned = <<c.responses[1].body>>
               /\ c.log = <<"request">>
               /\ c.sleeps = <<>>
               /\ c.logins = <<>>

C1_Witness ==
    \E i \in DOMAIN call :
        /\ Len(call[i].responses) >= 1 /\ IsOk(call[i].responses[1])
        /\ Len(call[i].responses[1].body) > 0
        /\ call[i].pc = "done"
        /\ retries = MaxRetries /\ backoff_factor = MaxBackoff

(***************************************************************************)
(* C2.  When the server answers retries transient statuses (500, 502, 503, *)
(* 504) in a row and then 200, the call returns the parsed body after      *)
(* exactly retries+1 network calls, having slept exactly retries times,    *)
(* with the delays b, 2b, ..., 2^(retries-1)*b in that order.              *)
(***************************************************************************)
C2_TransientThenOk ==
    \A i \in DOMAIN call :
        LET c == call[i]
            r == retries
        IN  ( /\ Len(c.responses) = r + 1
              /\ \A k \in 1..r : IsTransient(c.responses[k])
              /\ IsOk(c.responses[r + 1]) )
            => /\ c.pc = "done"
               /\ c.returned = <<c.responses[r + 1].body>>
               /\ Requests(c) = r + 1
               /\ Len(c.sent) = r + 1
               /\ c.sleeps = [k \in 1..r |-> backoff_factor * 2 ^ (k - 1)]

C2_Witness ==
    \E i \in DOMAIN call :
        /\ retries = 3 /\ backoff_factor = 2
        /\ Len(call[i].responses) = 4
        /\ \A k \in 1..3 : IsStatus(call[i].responses[k], {503})
        /\ IsOk(call[i].responses[4])
        /\ call[i].sleeps = <<2, 4, 8>>
        /\ call[i].result.kind = "return"

(***************************************************************************)
(* C3.  Whatever the server does, one call of _request_with_retry issues   *)
(* at most retries+1 requests; when every outcome is a transient status it *)
(* ends with BirTrashConnectionError after exactly retries+1 requests.     *)
(***************************************************************************)
C3_AtMostRetriesPlusOneRequests ==
    \A i \in DOMAIN call :
        LET c == call[i]
        IN  /\ Requests(c) <= retries + 1
            /\ Len(c.responses) <= retries + 1
            /\ ( /\ Executor(c)
                 /\ c.pc = "done"
                 /\ \A k \in DOMAIN c.responses : IsTransient(c.responses[k]) )
               => /\ c.result.kind = "raise"
                  /\ c.result.exc = "BirTrashConnectionError"
                  /\ Requests(c) = retries + 1
                  /\ Len(c.responses) = retries + 1

C3_Witness ==
    \E i \in DOMAIN call :
        /\ retries = 2
        /\ call[i].pc = "done"
        /\ Len(call[i].responses) = 3
        /\ \A k \in 1..3 : IsTransient(call[i].responses[k])
        /\ call[i].result.exc = "BirTrashConnectionError"

(***************************************************************************)
(* C4.  Inside _request_with_retry a response is followed by a call of     *)
(* authenticate() exactly when it is a 401, so the call makes as many      *)
(* authenticate() calls as it received 401 responses; no backoff sleep     *)
(* follows a re-authentication: what follows is the next request, unless   *)
(* authenticate() failed or no attempt is left.                            *)
(***************************************************************************)
C4_OneAuthenticatePer401 ==
    \A i \in DOMAIN call :
        LET c == call[i]
        IN  Executor(c)
            => /\ Count(c.log, "authenticate")
                  = Cardinality({k \in DOMAIN c.responses : Is401(c.responses[k])})
               /\ \A k \in DOMAIN c.responses :
                      LET p == RequestPos(c.log, k)
                      IN  Is401(c.responses[k])
                          <=> (p < Len(c.log) /\ c.log[p + 1] = "authenticate")
               /\ \A p \in DOMAIN c.log :
                      c.log[p] = "authenticate"
                      => IF p < Len(c.log)
                         THEN c.log[p + 1] = "request"
                         ELSE \/ c.pc = "login"
                              \/ /\ c.pc = "done"
                                 /\ \/ LoginFailed(c.logins[Len(c.logins)])
                                    \/ c.attempt = retries
               /\ Len(c.sleeps) = Count(c.log, "sleep")

C4_Witness ==
    \E i \in DOMAIN call :
        /\ Executor(call[i])
        /\ call[i].log = <<"request", "authenticate", "request", "sleep",
                           "request", "authenticate", "request">>

(***************************************************************************)
(* C5.  If the authenticate() call made in response to a 401 fails, the    *)
(* call of _request_with_retry ends at once with BirTrashAuthError: no     *)
(* further request, no sleep, no BirTrashConnectionError, whatever the     *)
(* attempts left.                                                          *)
(***************************************************************************)
C5_AuthFailureEndsTheCall ==
    \A i \in DOMAIN call :
        LET c == call[i]
        IN  Executor(c)
            => \A k \in DOMAIN c.logins :
                   LoginFailed(c.logins[k])
                   => /\ k = Len(c.logins)
                      /\ c.pc = "done"
                      /\ c.result.kind = "raise"
                      /\ c.result.exc = "BirTrashAuthError"
                      /\ c.log[Len(c.log)] = "authenticate"
                      /\ Requests(c) = Len(c.responses)

C5_Witness ==
    \E i \in DOMAIN call :
        /\ Executor(call[i])
        /\ Len(call[i].logins) = 1
        /\ IsStatus(call[i].logins[1], {503})
        /\ call[i].attempt = 0 /\ retries = MaxRetries
        /\ call[i].result.exc = "BirTrashAuthError"

(***************************************************************************)
(* C6.  A response whose status is not 2xx, not 401 and not transient (a   *)
(* 404, say) makes _request_with_retry raise at once an HTTP-status error  *)
(* that is not BirTrashConnectionError: that attempt is the last one, no   *)
(* further request is sent and no backoff sleep is performed.              *)
(***************************************************************************)
C6_OtherStatusRaisesAtOnce ==
    \A i \in DOMAIN call :
        LET c == call[i]
        IN  \A k \in DOMAIN c.responses :
                IsStatus(c.responses[k], {404})
                => /\ k = Len(c.responses)
                   /\ c.pc = "done"
                   /\ c.result.kind = "raise"
                   /\ c.result.exc = "ClientResponseError"
                   /\ c.log[Len(c.log)] = "request"

(***************************************************************************)
(* C7.  Whenever a request attempt of search_addresses or get_calendar is  *)
(* sent, its Token header equals the token the client has stored at that   *)
(* moment, however the operations running on the client, their backoff     *)
(* sleeps and their re-authentications interleave.  (Stated of the         *)
(* attempts that carry a token, the authenticated requests.)               *)
(***************************************************************************)
C7_SentTokenIsStoredToken ==
    \A i \in DOMAIN call :
        LET c == call[i]
        IN  c.op \in {"search_addresses", "get_calendar"}
            => \A k \in DOMAIN c.sent :
                   (c.sent[k].kind = "request"
                    /\ Get(c.sent[k].headers, "Token") \in Tokens)
                   => Get(c.sent[k].headers, "Token") = c.sent[k].token

(***************************************************************************)
(* C8.  close() closes only sessions the client created, never one         *)
(* supplied from outside, and the ownership flag is true only while the    *)
(* held session is one the client created: whatever operations, close()    *)
(* calls and closings by the external owner came before.                   *)
(***************************************************************************)
C8_ClosesOnlyOwnSessions ==
    /\ \A s \in closedByClient : s.owner = "client" /\ s.n \in 1..nCreated
    /\ close_session => session.owner = "client"
    /\ session.owner = "external" => ~close_session
    /\ ExternalSession \notin closedByClient

C8_Witness ==
    /\ ExternalSession \in closed
    /\ ClientSession(1) \in closedByClient
    /\ session = ClientSession(1)
    /\ \E i \in DOMAIN call : call[i].pc = "done"

(***************************************************************************)
(* C9.  authenticate() issues exactly one login request and never repeats  *)
(* it.  Either the login succeeded with a Token response header and the    *)
(* stored token is that value, or it failed (network failure, error        *)
(* status, no Token header), BirTrashAuthError is raised and the stored    *)
(* token is what it was before: the token stored is always that of the     *)
(* last successful login, absent if there was none.                        *)
(***************************************************************************)
LastToken(logins) ==
    LET ok == {k \in DOMAIN logins : ~LoginFailed(logins[k])}
    IN  IF ok = {} THEN None
        ELSE logins[CHOOSE k \in ok : \A j \in ok : j <= k].token

C9_AuthenticateOnceTokenOrError ==
    \A i \in DOMAIN call :
        LET c == call[i]
            nLogin == Cardinality({k \in DOMAIN c.sent : c.sent[k].kind = "login"})
        IN  /\ token = LastToken(c.logins)
            /\ nLogin = Count(c.log, "authenticate")
            /\ Len(c.logins) = IF c.pc = "login" THEN nLogin - 1 ELSE nLogin
            /\ \A k \in DOMAIN c.logins :
                   LoginFailed(c.logins[k])
                   => /\ k = Len(c.logins)
                      /\ c.pc = "done"
                      /\ c.result.kind = "raise"
                      /\ c.result.exc = "BirTrashAuthError"
            /\ c.op = "authenticate"
               => /\ c.log = <<"authenticate">>
                  /\ c.pc \in {"login", "done"}
                  /\ (c.pc = "done" /\ ~LoginFailed(c.logins[1]))
                     => (c.result.kind = "return" /\ token = c.logins[1].token)

C9_Witness ==
    \E i \in DOMAIN call :
        /\ Len(call[i].logins) = 2
        /\ call[i].logins[1] = [exc |-> None, status |-> 200, token |-> "t1"]
        /\ call[i].logins[2] = [exc |-> None, status |-> 503, token |-> "t2"]
        /\ call[i].sent[Len(call[i].sent)].token = "t1"
        /\ token = "t1"
        /\ call[i].result.exc = "BirTrashAuthError"

(***************************************************************************)
(* C10.  search_address returns the id of the first element of the list    *)
(* search_addresses returned, None when that element has no id, and raises *)
(* IndexError when the list is empty; later elements do not matter.        *)
(***************************************************************************)
C10_SearchAddressFirstId ==
    \A i \in DOMAIN call :
        LET c == call[i]
        IN  (c.op = "search_address" /\ c.returned # <<>>)
            => LET list == c.returned[1]
               IN  IF list = <<>>
                   THEN c.result.kind = "raise" /\ c.result.exc = "IndexError"
                   ELSE /\ c.result.kind = "return"
                        /\ <<"id", "X1">> \in list[1] => c.result.id = "X1"
                        /\ (\A p \in list[1] : p[1] # "id") => c.result.id = None

C10_Witness ==
    \E i \in DOMAIN call :
        /\ call[i].op = "search_address"
        /\ call[i].returned = << <<{<<"adresse", "A">>},
                                   {<<"id", "X1">>, <<"adresse", "A">>}>> >>
        /\ call[i].result.kind = "return"
        /\ call[i].result.id = None

(***************************************************************************)
(* What follows the k-th request of a call in its log.                     *)
(***************************************************************************)
IsFailure(o) == o.exc # None
\* which of the call's sleeps the log entry at place p is
SleepIndex(log, p) == Cardinality({q \in 1..p : log[q] = "sleep"})
\* the k-th request was followed at once by a sleep of d
SleptAfter(c, k, d) ==
    LET p == RequestPos(c.log, k)
    IN  /\ p < Len(c.log)
        /\ c.log[p + 1] = "sleep"
        /\ c.sleeps[SleepIndex(c.log, p + 1)] = d
\* after the sleep that followed the k-th request the loop went on
WentOnAfterSleep(c, k) ==
    LET p == RequestPos(c.log, k)
    IN  IF p + 1 = Len(c.log)
        THEN c.pc = "sleep" \/ (c.pc = "done" /\ k = retries + 1)
        ELSE c.log[p + 2] = "request"

(***************************************************************************)
(* C11.  When attempt i (the (i+1)-th request) of _request_with_retry ends *)
(* in a network or timeout exception, that exception becomes the last      *)
(* failure; if i < retries the call sleeps backoff_factor * 2^i and goes   *)
(* on to attempt i+1; if i = retries it does not sleep and raises          *)
(* BirTrashConnectionError whose cause is that exception.  So retries+1    *)
(* network exceptions in a row make exactly retries sleeps.                *)
(***************************************************************************)
C11_NetworkFailureBackoff ==
    \A i \in DOMAIN call :
        LET c == call[i]
        IN  Executor(c)
            => /\ \A k \in DOMAIN c.responses :
                      IsFailure(c.responses[k])
                      => /\ k = Len(c.responses)
                            => c.last_exception = Exc(c.responses[k].exc, 0)
                         /\ IF k - 1 < retries
                            THEN /\ SleptAfter(c, k, backoff_factor * 2 ^ (k - 1))
                                 /\ WentOnAfterSleep(c, k)
                            ELSE /\ k = Len(c.responses)
                                 /\ c.log[Len(c.log)] = "request"
                                 /\ c.pc = "done"
                                 /\ c.result.kind = "raise"
                                 /\ c.result.exc = "BirTrashConnectionError"
                                 /\ c.result.cause = Exc(c.responses[k].exc, 0)
               /\ ( /\ Len(c.responses) = retries + 1
                    /\ \A k \in DOMAIN c.responses : IsFailure(c.responses[k]) )
                  => Len(c.sleeps) = retries

C11_Witness ==
    \E i \in DOMAIN call :
        /\ Executor(call[i])
        /\ retries = 2 /\ backoff_factor = 2
        /\ Len(call[i].responses) = 3
        /\ \A k \in 1..3 : call[i].responses[k].exc = "TimeoutError"
        /\ call[i].sleeps = <<2, 4>>
        /\ call[i].result.exc = "BirTrashConnectionError"
        /\ call[i].result.cause = Exc("TimeoutError", 0)

(***************************************************************************)
(* C12.  When attempt i of _request_with_retry receives a transient status *)
(* (500, 502, 503, 504) the call sleeps backoff_factor * 2^i before going  *)
(* on, whatever attempts are left: also when i = retries.  So retries+1    *)
(* transient statuses in a row make exactly retries+1 sleeps, the last of  *)
(* backoff_factor * 2^retries, and only then BirTrashConnectionError is    *)
(* raised.                                                                 *)
(***************************************************************************)
C12_TransientAlwaysSleeps ==
    \A i \in DOMAIN call :
        LET c == call[i]
        IN  Executor(c)
            => /\ \A k \in DOMAIN c.responses :
                      IsTransient(c.responses[k])
                      => /\ SleptAfter(c, k, backoff_factor * 2 ^ (k - 1))
                         /\ WentOnAfterSleep(c, k)
               /\ ( /\ Len(c.responses) = retries + 1
                    /\ \A k \in DOMAIN c.responses : IsTransient(c.responses[k]) )
                  => /\ c.sleeps = [k \in 1..(retries + 1)
                                       |-> backoff_factor * 2 ^ (k - 1)]
                     /\ c.log[Len(c.log)] = "sleep"
                     /\ c.pc = "done"
                        => /\ c.result.kind = "raise"
                           /\ c.result.exc = "BirTrashConnectionError"

C12_Witness ==
    \E i \in DOMAIN call :
        /\ Executor(call[i])
        /\ retries = 2 /\ backoff_factor = 2
        /\ Len(call[i].responses) = 3
        /\ \A k \in 1..3 : IsStatus(call[i].responses[k], {504})
        /\ call[i].sleeps = <<2, 4, 8>>
        /\ call[i].pc = "done"
        /\ call[i].result.exc = "BirTrashConnectionError"

(***************************************************************************)
(* C13.  When _request_with_retry has used up its retries+1 attempts, the  *)
(* BirTrashConnectionError it raises has as its cause the failure recorded *)
(* last among the attempts: the last exception its except clause caught or *)
(* the last "Server returned <status>" error, also when 401 attempts came  *)
(* after it.  The cause is absent exactly when every one of the retries+1  *)
(* attempts was answered 401.                                              *)
(***************************************************************************)
\* the failure an outcome records as last_exception, if it records one
Recorded(o) ==
    IF o.exc # None THEN Exc(o.exc, 0)
    ELSE IF o.status \in {500, 502, 503, 504}
    THEN Exc("BirTrashConnectionError", o.status)
    ELSE IF o.status >= 400 /\ o.status # 401
    THEN Exc("ClientResponseError", o.status)
    ELSE NoException

LastRecorded(responses) ==
    LET rec == {k \in DOMAIN responses : Recorded(responses[k]) # NoException}
    IN  IF rec = {} THEN NoException
        ELSE Recorded(responses[CHOOSE k \in rec : \A j \in rec : j <= k])

C13_ChainsLastRecordedFailure ==
    \A i \in DOMAIN call :
        LET c == call[i]
        IN  ( /\ Executor(c)
              /\ c.pc = "done"
              /\ c.result.exc = "BirTrashConnectionError" )
            => /\ Len(c.responses) = retries + 1
               /\ c.result.cause = LastRecorded(c.responses)
               /\ c.result.cause = NoException
                  <=> \A k \in DOMAIN c.responses : Is401(c.responses[k])

C13_Witness ==
    \E i \in DOMAIN call :
        /\ Executor(call[i])
        /\ retries = 2
        /\ Len(call[i].responses) = 3
        /\ call[i].responses[1].exc = "ClientConnectionError"
        /\ IsStatus(call[i].responses[2], {502})
        /\ Is401(call[i].responses[3])
        /\ call[i].result.exc = "BirTrashConnectionError"
        /\ call[i].result.cause = Exc("BirTrashConnectionError", 502)

(***************************************************************************)
(* C14.  Within one call of _request_with_retry the successive backoff     *)
(* sleeps last b, 2b, 4b, ...: the n-th sleep of the call, counted from 0, *)
(* lasts backoff_factor * 2^n whatever the server answers, also when 401   *)
(* responses come before or between the failures.                          *)
(***************************************************************************)
C14_NthSleepLastsB2N ==
    \A i \in DOMAIN call :
        LET c == call[i]
        IN  Executor(c)
            => \A n \in DOMAIN c.sleeps :
                   c.sleeps[n] = backoff_factor * 2 ^ (n - 1)

(***************************************************************************)
(* C15.  After a re-authentication triggered by a 401 has succeeded, the   *)
(* next attempt of the same call carries the newly stored token in its     *)
(* Token header exactly when a non-empty headers mapping was passed to     *)
(* _request_with_retry.  When no headers or empty headers were passed the  *)
(* stored token is replaced all the same, but the next attempt is sent as  *)
(* the first one was.                                                      *)
(***************************************************************************)
\* which of the call's logins the entry of sent at place q is
LoginIndex(sent, q) == Cardinality({j \in 1..q : sent[j].kind = "login"})

C15_HeaderUpdatedIffHeadersPassed ==
    \A i \in DOMAIN call :
        LET c == call[i]
        IN  Executor(c)
            => \A q \in DOMAIN c.sent :
                   ( /\ c.sent[q].kind = "login"
                     /\ q < Len(c.sent)
                     /\ ~LoginFailed(c.logins[LoginIndex(c.sent, q)]) )
                   => LET new == c.logins[LoginIndex(c.sent, q)].token
                          first == c.sent[1]
                          next == c.sent[q + 1]
                      IN  /\ next.kind = "request"
                          /\ next.token = new
                          /\ IF first.has_headers /\ first.headers # {}
                             THEN Get(next.headers, "Token") = new
                             ELSE /\ next.has_headers = first.has_headers
                                  /\ next.headers = first.headers
                                  /\ Get(next.headers, "Token") = None

C15_Witness ==
    \E i \in DOMAIN call :
        /\ call[i].op = "_request_with_retry"
        /\ Len(call[i].sent) = 3
        /\ call[i].sent[1].has_headers /\ call[i].sent[1].headers = {}
        /\ call[i].sent[2].kind = "login"
        /\ call[i].logins = <<[exc |-> None, status |-> 200, token |-> "t1"]>>
        /\ call[i].sent[3].kind = "request"
        /\ call[i].sent[3].headers = {}
        /\ call[i].sent[3].token = "t1"

(***************************************************************************)
(* C16.  The race of the first callers.  As claimed: when two operations   *)
(* have been started concurrently on a client that was constructed without *)
(* a session, both have seen "no session" in _get_session and each has     *)
(* created one, so that two sessions were created and one of them is no    *)
(* longer referenced by the client.                                        *)
(***************************************************************************)
\* both callers' operations are running or over, on a client constructed
\* without a session and never authenticated before, and nothing was closed
TwoFirstCallers ==
    /\ DOMAIN call = {1, 2}
    /\ \A i \in DOMAIN call :
           /\ call[i].pc # "idle"
           /\ call[i].sent[1].token = None
           /\ call[i].sent[1].session.owner = "client"
    /\ closed = {}

C16_FirstCallersCreateTwoSessions ==
    TwoFirstCallers
    => /\ nCreated = 2
       /\ \E n \in 1..nCreated :
              ClientSession(n) # session /\ ClientSession(n) \notin closed

(***************************************************************************)
(* C16, as the code has it.  _get_session tests and assigns without        *)
(* suspending in between, so it runs as one step of the event loop: every  *)
(* session the client created is the one it holds or is closed, and while  *)
(* nothing was closed at most one session was created, which the           *)
(* operations started concurrently all use.                                *)
(***************************************************************************)
C16_NoSessionLeaks ==
    /\ \A n \in 1..nCreated :
           ClientSession(n) = session \/ ClientSession(n) \in closed
    /\ closed = {} => nCreated <= 1
    /\ TwoFirstCallers
       => \A i \in DOMAIN call :
              \A k \in DOMAIN call[i].sent :
                  call[i].sent[k].session = ClientSession(1)

C16_Witness ==
    /\ TwoFirstCallers
    /\ nCreated = 1
    /\ session = ClientSession(1)
    /\ \A i \in DOMAIN call : call[i].pc = "request"

(***************************************************************************)
(* C17.  _get_session is idempotent.  While the client holds an open       *)
(* session, external or of its own, a step that calls _get_session (the    *)
(* start of an operation, the login of a re-authentication) gets that same *)
(* session, creates none and leaves the ownership flag as it is.  A        *)
(* session is created only when none is held or the held one is closed,    *)
(* and then it is open, held and marked as owned.                          *)
(***************************************************************************)
\* the step calls _get_session for caller i: its operation starts, or it
\* issues a login
GetsSession(i) ==
    /\ Len(call'[i].sent) = Len(call[i].sent) + 1
    /\ \/ call[i].sent = <<>>
       \/ call'[i].sent[Len(call'[i].sent)].kind = "login"

C17_GetSessionIdempotent ==
    [][ /\ (session # NoSession /\ session \notin closed)
           => /\ session' = session
              /\ nCreated' = nCreated
              /\ close_session' = close_session
        /\ (session' # session \/ nCreated' # nCreated)
           => /\ session = NoSession \/ session \in closed
              /\ nCreated' = nCreated + 1
              /\ session' = ClientSession(nCreated')
              /\ session' \notin closed'
              /\ close_session'
        /\ \A i \in DOMAIN call :
               GetsSession(i)
               => /\ call'[i].sent[Len(call'[i].sent)].session = session'
                  /\ session' \notin closed'
      ]_vars

C17_Witness ==
    /\ nCreated = 2
    /\ session = ClientSession(2)
    /\ close_session
    /\ closed = {ClientSession(1)}
    /\ \E i, j \in DOMAIN call :
           /\ call[i].sent # <<>> /\ call[i].sent[1].session = ClientSession(1)
           /\ call[j].sent # <<>> /\ call[j].sent[1].session = ClientSession(2)

(***************************************************************************)
(* C18.  A 401 received on the last attempt slot (attempt index retries,   *)
(* the only attempt when retries = 0) still makes the call authenticate    *)
(* and, the login succeeding, replaces the stored token; but the request   *)
(* is not sent again with the new token: the call ends with                *)
(* BirTrashConnectionError after its retries+1 requests.  So a call whose  *)
(* first response is 401 returns a body only if retries >= 1.              *)
(***************************************************************************)
C18_UnauthorizedOnLastSlot ==
    \A i \in DOMAIN call :
        LET c == call[i]
            last == retries + 1
        IN  Executor(c)
            => /\ (Len(c.responses) = last /\ Is401(c.responses[last]))
                  => /\ c.log[Len(c.log)] = "authenticate"
                     /\ c.sent[Len(c.sent)].kind = "login"
                     /\ Requests(c) = last
                     /\ c.pc \in {"login", "done"}
                     /\ (c.pc = "done" /\ ~LoginFailed(c.logins[Len(c.logins)]))
                        => /\ token = c.logins[Len(c.logins)].token
                           /\ c.result.kind = "raise"
                           /\ c.result.exc = "BirTrashConnectionError"
                           /\ c.returned = <<>>
               /\ ( /\ Len(c.responses) >= 1
                    /\ Is401(c.responses[1])
                    /\ c.result.kind = "return" )
                  => retries >= 1

C18_Witness ==
    \E i \in DOMAIN call :
        /\ Executor(call[i])
        /\ retries = 0
        /\ call[i].responses = <<[exc |-> None, status |-> 401, body |-> <<>>]>>
        /\ call[i].logins = <<[exc |-> None, status |-> 200, token |-> "t1"]>>
        /\ token = "t1"
        /\ call[i].pc = "done"
        /\ call[i].result.exc = "BirTrashConnectionError"
        /\ call[i].result.cause = NoException

(***************************************************************************)
(* C19.  Every call of _request_with_retry terminates, by returning the    *)
(* parsed body or by raising BirTrashAuthError or BirTrashConnectionError, *)
(* for every retries and every behaviour of the server (endless 401,       *)
(* endless transient statuses), provided each network call and each        *)
(* backoff sleep comes to an end.                                          *)
(***************************************************************************)
C19_EveryCallTerminates ==
    Executor(call[1])
    ~> /\ call[1].pc = "done"
       /\ \/ call[1].returned # <<>>
          \/ call[1].result.exc \in {"BirTrashAuthError", "BirTrashConnectionError"}

C19_Witness ==
    /\ Executor(call[1])
    /\ retries = MaxFairRetries
    /\ Len(call[1].responses) = MaxFairRetries + 1
    /\ \A k \in DOMAIN call[1].responses : Is401(call[1].responses[k])
    /\ call[1].pc = "done"
    /\ call[1].result.exc = "BirTrashConnectionError"

(***************************************************************************)
(* C20.  Every request attempt of a call of _request_with_retry, and every *)
(* login request of a re-authentication inside it, is issued on the        *)
(* session the client holds at that moment, and that session is open when  *)
(* the request is issued: also when close() runs while the call is         *)
(* suspended in a network call or a backoff sleep.  (aiohttp answers a     *)
(* request issued on a closed session with RuntimeError.)                  *)
(***************************************************************************)
C20_AttemptsOnHeldOpenSession ==
    \A i \in DOMAIN call :
        LET c == call[i]
        IN  Executor(c)
            => /\ \A k \in DOMAIN c.sent : c.sent[k].session = c.sent[k].held
               /\ c.result.exc # "RuntimeError"

=============================================================================
